---- MODULE Spec2Model ----
(***************************************************************************)
(* Airline Cargo Network Optimizer (src/app.py): one run of the pipeline   *)
(* over an uploaded workbook, as a state machine.                          *)
(*                                                                         *)
(*   direct rows -> indirect rows -> constraint assembly -> solve ->       *)
(*   post-processing (allocation table, leg detail, leg summary, profit)   *)
(*                                                                         *)
(* Strings are sequences of one-character strings, so that strip(),        *)
(* replace() and the solver library's name sanitisation are computed       *)
(* character by character.  A literal prefix of a generated name           *)
(* ("CargoTons_", "Leg_Total_Capacity_", ...) is kept as one token: the    *)
(* identifiers of the model are written with the characters "A", "B",     *)
(* "-", "_", " " and the digits, none of which spells such a prefix.       *)
(***************************************************************************)
EXTENDS Integers, Sequences, FiniteSets, TLC

\* ------------------------------------------------------------------ bounds
\* Rows read from the direct sheet and from the indirect sheet.
MaxDirectRows == 1
MaxIndirectRows == 2
\* Largest capacity / share figure of a cell, and so the largest tonnage.
MaxCap == 4

\* ----------------------------------------------------------------- strings
Digits == <<"0", "1", "2", "3", "4", "5", "6", "7", "8", "9">>

\* ord() of the characters used, for Python's string comparison.
CharCode(c) ==
  CASE c = " " -> 32
    [] c = "-" -> 45
    [] c = "0" -> 48
    [] c = "1" -> 49
    [] c = "2" -> 50
    [] c = "A" -> 65
    [] c = "B" -> 66
    [] c = "_" -> 95
    [] c = "x" -> 120
    [] OTHER -> 0

RECURSIVE StrLess(_, _)
\* Python's s < t on strings: lexicographic, a proper prefix first.
StrLess(s, t) ==
  IF t = <<>> THEN FALSE
  ELSE IF s = <<>> THEN TRUE
  ELSE IF Head(s) = Head(t) THEN StrLess(Tail(s), Tail(t))
  ELSE CharCode(Head(s)) < CharCode(Head(t))

RECURSIVE LStrip(_)
LStrip(s) == IF s # <<>> /\ Head(s) = " " THEN LStrip(Tail(s)) ELSE s

RECURSIVE RStrip(_)
RStrip(s) ==
  IF s # <<>> /\ s[Len(s)] = " " THEN RStrip(SubSeq(s, 1, Len(s) - 1)) ELSE s

\* str.strip()
Strip(s) == RStrip(LStrip(s))

\* str.replace(a, b) for one-character a and b.
ReplaceChar(s, a, b) == [i \in 1..Len(s) |-> IF s[i] = a THEN b ELSE s[i]]

\* str.replace(tok, "") for a token that is one element of the sequence.
RemoveToken(s, tok) == SelectSeq(s, LAMBDA c : c # tok)

\* The solver library's names: each of the characters "-+[] ->/" becomes "_".
IllegalChars == {"-", "+", "[", "]", " ", ">", "/"}

Sanitize(s) == [i \in 1..Len(s) |-> IF s[i] \in IllegalChars THEN "_" ELSE s[i]]

RECURSIVE IntToStr(_)
\* str() of an integer.
IntToStr(n) ==
  IF n < 0 THEN <<"-">> \o IntToStr(-n)
  ELSE IF n < 10 THEN <<Digits[n + 1]>>
  ELSE IntToStr(n \div 10) \o <<Digits[(n % 10) + 1]>>

\* ------------------------------------------------------------------- cells
\* A worksheet cell: empty (NaN), text, or a number.
NaN == [kind |-> "nan", text |-> <<>>, num |-> 0]

Str(t) == [kind |-> "str", text |-> t, num |-> 0]

Num(n) == [kind |-> "num", text |-> <<>>, num |-> n]

\* .replace("-", 0).fillna(0) on one cell.
CleanCell(c) ==
  IF c.kind = "nan" \/ (c.kind = "str" /\ c.text = <<"-">>) THEN Num(0) ELSE c

\* .replace("-", 0).fillna(0) on one row.
CleanRow(r) == [f \in DOMAIN r |-> CleanCell(r[f])]

\* pd.notna
NotNa(c) == c.kind # "nan"

\* str(cell)
StrOf(c) == IF c.kind = "num" THEN IntToStr(c.num) ELSE c.text

IsDigit(ch) == \E d \in 1..10 : Digits[d] = ch

DigitVal(ch) == (CHOOSE d \in 1..10 : Digits[d] = ch) - 1

RECURSIVE DigitsVal(_)
DigitsVal(s) ==
  IF s = <<>> THEN 0 ELSE 10 * DigitsVal(SubSeq(s, 1, Len(s) - 1)) + DigitVal(s[Len(s)])

AllDigits(s) == s # <<>> /\ \A i \in 1..Len(s) : IsDigit(s[i])

\* Whether float(cell) returns (TRUE) or raises ValueError (FALSE).
CanFloat(c) ==
  \/ c.kind = "num"
  \/ /\ c.kind = "str"
     /\ LET t == Strip(c.text) IN
          \/ AllDigits(t)
          \/ t # <<>> /\ Head(t) \in {"-", "+"} /\ AllDigits(Tail(t))

\* float(cell), where it returns.
Float(c) ==
  IF c.kind = "num" THEN c.num
  ELSE LET t == Strip(c.text) IN
         IF Head(t) = "-" THEN 0 - DigitsVal(Tail(t))
         ELSE IF Head(t) = "+" THEN DigitsVal(Tail(t))
         ELSE DigitsVal(t)

Min(a, b) == IF a <= b THEN a ELSE b

\* ------------------------------------------------------------ dictionaries
EmptyDict == [k \in {} |-> 0]

\* d[k] = v
Put(d, k, v) == [x \in (DOMAIN d) \cup {k} |-> IF x = k THEN v ELSE d[x]]

\* d.setdefault(k, []).append(v)
AppendTo(d, k, v) == Put(d, k, IF k \in DOMAIN d THEN Append(d[k], v) ELSE <<v>>)

\* all_od_paths[od] = props: a key already present keeps its place.
PutPath(paths, p) ==
  IF \E i \in 1..Len(paths) : paths[i].od = p.od
  THEN [i \in 1..Len(paths) |-> IF paths[i].od = p.od THEN p ELSE paths[i]]
  ELSE Append(paths, p)

\* ------------------------------------------------------------------- input
sA == <<"A">>
sB == <<"B">>
sA_dash_B == <<"A", "-", "B">>
sB_under_A == <<"B", "_", "A">>
sA_space_B == <<"A", " ", "B">>
sDash == <<"-">>
sBlank == <<" ">>
sText == <<"x">>

\* The legs' absent value (Python's None).
None == <<"None">>

\* Rows of the direct sheet: columns O-D, AI Cap, CM, AI Share.
DirectRows ==
  {[od |-> Str(i), ai_cap |-> Num(c), cm |-> Num(1), ai_share |-> Num(MaxCap)] :
      i \in {sA, sB}, c \in {1, MaxCap}}
  \cup {[od |-> i, ai_cap |-> Num(1), cm |-> Num(1), ai_share |-> Num(1)] :
      i \in {NaN, Str(sDash), Str(sBlank)}}
  \cup {[od |-> Str(sA), ai_cap |-> Str(sText), cm |-> Num(1), ai_share |-> Num(1)],
        [od |-> Str(sA), ai_cap |-> Num(1), cm |-> Str(sText), ai_share |-> Num(1)],
        [od |-> Str(sA), ai_cap |-> Num(1), cm |-> Num(1), ai_share |-> Num(-1)]}

\* Rows of the indirect sheet: columns O-D, CM, AI Share, 1st Leg O-D,
\* 2nd Leg O-D, TP Cap 1, TP Master Cap 1, TP Cap 2, TP Master Cap 2.
IndirectRow(od, cm, share, l1, l2, t1, m1, t2, m2) ==
  [od |-> od, cm |-> cm, ai_share |-> share, leg1 |-> l1, leg2 |-> l2,
   tp_cap1 |-> t1, master1 |-> m1, tp_cap2 |-> t2, master2 |-> m2]

IndirectRows ==
  {IndirectRow(Str(i), Num(1), Num(MaxCap), Str(sA), Str(l2),
               Num(MaxCap), Num(m), Num(MaxCap), Num(MaxCap)) :
      i \in {sA_dash_B, sB_under_A}, l2 \in {sA, sB}, m \in {1, MaxCap}}
  \cup {IndirectRow(Str(sA_space_B), Num(1), Num(MaxCap), Str(sA), Str(sB),
                    Num(MaxCap), Num(MaxCap), Num(MaxCap), Num(MaxCap))}
  \cup {IndirectRow(i, Num(1), Num(1), Str(sA), Str(sB), Num(1), Num(1), Num(1), Num(1)) :
      i \in {NaN, Str(sBlank)}}
  \cup {IndirectRow(Str(sA_dash_B), Str(sText), Num(1), Str(sA), Str(sB),
                    Num(1), Num(1), Num(1), Num(1)),
        IndirectRow(Str(sA_dash_B), Num(1), Num(1), Str(sA), Str(sB),
                    Str(sText), Num(1), Num(1), Num(1)),
        IndirectRow(Str(sA_dash_B), Num(1), Num(1), Str(sA), Str(sB),
                    Num(1), Num(1), Num(1), Str(sText))}

\* ------------------------------------------------------------------- state
VARIABLES
  pc,                    \* the pipeline's position
  n,                     \* rows of the sheet being read that were read so far
  row,                   \* the row being ingested, as it stands in the workbook
  all_od_paths,          \* the route catalog, in insertion order
  leg_total_capacities,  \* leg -> total capacity
  leg_tp_caps,           \* leg -> list of <<od, cap>>
  leg_tp_master_caps,    \* leg -> master cap
  diag,                  \* st.warning / st.error calls so far
  prob,                  \* the names of the constraints added to the problem
  status,                \* the solver's outcome
  x,                     \* varValue of each route's variable (by catalog place)
  od_summary,            \* the route-allocation table
  df_leg_detail,         \* the leg-detail table
  df_leg_summary,        \* the leg-summary table
  total_profit           \* the objective's value, once computed (a list of one)

catalog == <<all_od_paths, leg_total_capacities, leg_tp_caps, leg_tp_master_caps>>

model == <<prob, status, x>>

tables == <<od_summary, df_leg_detail, df_leg_summary, total_profit>>

vars == <<pc, n, row, catalog, diag, model, tables>>

NoRow == [sheet |-> "none", cells |-> <<>>]

Init ==
  /\ pc = "direct"
  /\ n = 0
  /\ row = NoRow
  /\ all_od_paths = <<>>
  /\ leg_total_capacities = EmptyDict
  /\ leg_tp_caps = EmptyDict
  /\ leg_tp_master_caps = EmptyDict
  /\ diag = [warnings |-> 0, errors |-> 0]
  /\ prob = {}
  /\ status = "NotSolved"
  /\ x = <<>>
  /\ od_summary = <<>>
  /\ df_leg_detail = <<>>
  /\ df_leg_summary = EmptyDict
  /\ total_profit = <<>>

\* ------------------------------------------------------------- ingestion
\* The route id of a cleaned row: the O-D cell, stripped ("" when unusable).
RouteId(r) == IF NotNa(r.od) THEN Strip(StrOf(r.od)) ELSE <<>>

\* The outer handler: st.error, and the run is over.
Abort ==
  /\ pc' = "error"
  /\ diag' = [diag EXCEPT !.errors = @ + 1]

\* The effect of one direct row on the catalog: the row's route and its leg
\* capacity, and whether a float() raised on the way.
DirectEffect(r, paths, totals) ==
  LET od == RouteId(r) IN
    IF od = <<>> THEN [raised |-> FALSE, paths |-> paths, totals |-> totals]
    ELSE IF ~CanFloat(r.ai_cap) THEN [raised |-> TRUE, paths |-> paths, totals |-> totals]
    ELSE LET ai_cap == Float(r.ai_cap)
             totals2 == Put(totals, od, ai_cap)
         IN IF ~CanFloat(r.cm) \/ ~CanFloat(r.ai_share)
            THEN [raised |-> TRUE, paths |-> paths, totals |-> totals2]
            ELSE [raised |-> FALSE,
                  paths |-> PutPath(paths, [od |-> od, legs |-> <<od>>, cm |-> Float(r.cm),
                                            max_allocable |-> Min(Float(r.ai_share), ai_cap),
                                            type |-> "Direct"]),
                  totals |-> totals2]

\* One iteration of the loop over the direct sheet.
IngestDirect(raw) ==
  /\ pc = "direct"
  /\ n < MaxDirectRows
  /\ n' = n + 1
  /\ row' = [sheet |-> "direct", cells |-> raw]
  /\ LET e == DirectEffect(CleanRow(raw), all_od_paths, leg_total_capacities) IN
       /\ all_od_paths' = e.paths
       /\ leg_total_capacities' = e.totals
       /\ IF e.raised THEN Abort ELSE UNCHANGED <<pc, diag>>
  /\ UNCHANGED <<leg_tp_caps, leg_tp_master_caps, model, tables>>

\* The direct sheet has no more rows.
EndDirect ==
  /\ pc = "direct"
  /\ pc' = "indirect"
  /\ n' = 0
  /\ row' = NoRow
  /\ UNCHANGED <<catalog, diag, model, tables>>

\* A leg cell of a cleaned row.
LegOf(c) == IF NotNa(c) THEN Strip(StrOf(c)) ELSE None

\* One pass of the loop over a row's legs, on the running catalog c.
LegEffect(c, od, leg, tp, mc) ==
  IF c.raised \/ leg = None THEN c
  ELSE IF ~CanFloat(tp) \/ ~CanFloat(mc) THEN [c EXCEPT !.raised = TRUE]
  ELSE LET tp_cap == Float(tp)
           master_cap == Float(mc)
           fallback == leg \notin DOMAIN c.totals
       IN [c EXCEPT !.tp_caps = AppendTo(@, leg, <<od, tp_cap>>),
                    !.masters = Put(@, leg, master_cap),
                    !.totals = IF fallback THEN Put(@, leg, master_cap) ELSE @,
                    !.warnings = IF fallback THEN @ + 1 ELSE @]

\* The effect of one indirect row on the catalog.
IndirectEffect(r, c) ==
  LET od == RouteId(r) IN
    IF od = <<>> THEN c
    ELSE IF ~CanFloat(r.cm) \/ ~CanFloat(r.ai_share) THEN [c EXCEPT !.raised = TRUE]
    ELSE LET ai_share == Float(r.ai_share)
             tp_od_cap == ai_share
             leg1 == LegOf(r.leg1)
             leg2 == LegOf(r.leg2)
             legs == <<leg1, leg2>>
             c1 == [c EXCEPT !.paths =
                      PutPath(@, [od |-> od, legs |-> SelectSeq(legs, LAMBDA l : l # None),
                                  cm |-> Float(r.cm),
                                  max_allocable |-> Min(ai_share, tp_od_cap),
                                  type |-> "Indirect"])]
             c2 == LegEffect(c1, od, leg1, r.tp_cap1, r.master1)
         IN LegEffect(c2, od, leg2, r.tp_cap2, r.master2)

\* One iteration of the loop over the indirect sheet.
IngestIndirect(raw) ==
  /\ pc = "indirect"
  /\ n < MaxIndirectRows
  /\ n' = n + 1
  /\ row' = [sheet |-> "indirect", cells |-> raw]
  /\ LET e == IndirectEffect(CleanRow(raw),
                  [raised |-> FALSE, paths |-> all_od_paths, totals |-> leg_total_capacities,
                   tp_caps |-> leg_tp_caps, masters |-> leg_tp_master_caps, warnings |-> 0])
     IN /\ all_od_paths' = e.paths
        /\ leg_total_capacities' = e.totals
        /\ leg_tp_caps' = e.tp_caps
        /\ leg_tp_master_caps' = e.masters
        /\ diag' = [warnings |-> diag.warnings + e.warnings,
                    errors |-> diag.errors + (IF e.raised THEN 1 ELSE 0)]
  /\ UNCHANGED <<pc, model, tables>>

\* The indirect sheet has no more rows.
EndIndirect ==
  /\ pc = "indirect"
  /\ pc' = "assemble"
  /\ n' = 0
  /\ row' = NoRow
  /\ UNCHANGED <<catalog, diag, model, tables>>

\* ---------------------------------------------------------------- assembly
RECURSIVE SumF(_, _)
\* The sum of f over the set S of its arguments.
SumF(f, S) ==
  IF S = {} THEN 0
  ELSE LET e == CHOOSE e \in S : TRUE IN f[e] + SumF(f, S \ {e})

Routes == 1..Len(all_od_paths)

\* The place of route id od in the catalog (x_od[od]).
PathIndex(od) == CHOOSE i \in Routes : all_od_paths[i].od = od

\* leg in props['legs']
Traverses(i, leg) == \E k \in 1..Len(all_od_paths[i].legs) : all_od_paths[i].legs[k] = leg

\* The name of the decision variable LpVariable.dicts("CargoTons", ...) makes for a key.
VarName(od) == <<"CargoTons_">> \o Sanitize(od)

\* The name the problem keeps for a constraint added as (constraint, name).
ConstraintName(prefix, rest) == <<prefix>> \o Sanitize(rest)

\* Leg capacity (total traffic on a leg).
LegTotalConstraints ==
  {[name |-> ConstraintName("Leg_Total_Capacity_", leg),
    vars |-> {i \in Routes : Traverses(i, leg)},
    cap |-> leg_total_capacities[leg],
    src |-> <<"total", leg, 0>>] : leg \in DOMAIN leg_total_capacities}

\* Max allocable per OD.
MaxAllocableConstraints ==
  {[name |-> ConstraintName("Max_Allocable_", all_od_paths[i].od),
    vars |-> {i},
    cap |-> all_od_paths[i].max_allocable,
    src |-> <<"route", all_od_paths[i].od, 0>>] : i \in Routes}

\* TP OD-Leg cap (a specific OD's usage of a leg): one per list entry.
TpOdLegConstraints ==
  UNION {{[name |-> ConstraintName("TP_OD_Leg_Cap_", leg_tp_caps[leg][k][1] \o <<"_">> \o leg),
           vars |-> {PathIndex(leg_tp_caps[leg][k][1])},
           cap |-> leg_tp_caps[leg][k][2],
           src |-> <<"pair", leg, k>>] : k \in 1..Len(leg_tp_caps[leg])} :
         leg \in DOMAIN leg_tp_caps}

\* TP Master cap (total indirect traffic on a leg).
TpMasterConstraints ==
  {[name |-> ConstraintName("TP_Master_Cap_", leg),
    vars |-> {i \in Routes : Traverses(i, leg) /\ all_od_paths[i].type = "Indirect"},
    cap |-> leg_tp_master_caps[leg],
    src |-> <<"master", leg, 0>>] : leg \in DOMAIN leg_tp_master_caps}

\* Every constraint the code hands to the problem.
Constraints ==
  LegTotalConstraints \cup MaxAllocableConstraints \cup TpOdLegConstraints
    \cup TpMasterConstraints

\* Two constraints are handed over under one name (the problem refuses the second).
OverlappingNames == \E c, d \in Constraints : c # d /\ c.name = d.name

\* Lines 101-120: the problem, its variables, its objective and its constraints.
Assemble ==
  /\ pc = "assemble"
  /\ IF OverlappingNames
     THEN Abort /\ UNCHANGED prob
     ELSE pc' = "solve" /\ prob' = Constraints /\ UNCHANGED diag
  /\ UNCHANGED <<n, row, catalog, status, x, tables>>

\* ------------------------------------------------------------------ solver
\* The assignments considered: whole tonnages up to the largest cap.
Grid == [Routes -> 0..MaxCap]

Satisfies(v, c) == SumF(v, c.vars) <= c.cap

Feasible == {v \in Grid : \A c \in prob : Satisfies(v, c)}

\* The objective: sum of x_od[od] * cm.
Objective(v) == SumF([i \in Routes |-> v[i] * all_od_paths[i].cm], Routes)

Optimal ==
  LET F == Feasible
      best == CHOOSE b \in {Objective(v) : v \in F} : \A v \in F : Objective(v) <= b
  IN {v \in F : Objective(v) = best}

\* Of an infeasible problem: the assignments that break only the constraints
\* no assignment of non-negative values can meet.
LeastInfeasible == {v \in Grid : \A c \in prob : c.cap >= 0 => Satisfies(v, c)}

\* prob.solve() returns: an optimum, or, of an infeasible problem, the point
\* the solver stopped at.  The caller does not look at the status.  (Two keys
\* with one variable name never get here: their Max_Allocable constraints
\* have one name too, and the assembly has already ended the run.)
Solve ==
  /\ pc = "solve"
  /\ pc' = "post"
  /\ IF Feasible # {}
     THEN status' = "Optimal" /\ x' \in Optimal
     ELSE status' = "Infeasible" /\ x' \in LeastInfeasible
  /\ UNCHANGED <<n, row, catalog, prob, diag, tables>>

\* prob.solve() raises (the solver cannot be run, or fails).
SolveFails ==
  /\ pc = "solve"
  /\ Abort
  /\ status' = "Error"
  /\ UNCHANGED <<n, row, catalog, prob, x, tables>>

\* --------------------------------------------------------- post-processing
\* prob.variables(): in the order the objective was built (the catalog's), or,
\* in the library's releases that sort them, by name.
InsertionOrder == [k \in Routes |-> k]

NameRank(i) ==
  1 + Cardinality({j \in Routes : StrLess(VarName(all_od_paths[j].od),
                                          VarName(all_od_paths[i].od))})

NameOrder == [k \in Routes |-> CHOOSE i \in Routes : NameRank(i) = k]

VariableOrders == {InsertionOrder, NameOrder}

\* Line 127: the route id read back from a variable's name.
OdFromName(name) == ReplaceChar(RemoveToken(name, "CargoTons_"), "_", "-")

\* next((k for k in all_od_paths.keys() if ...), None), given the places I of
\* the keys that pass the test: the first of them, or None.
FirstKey(I) ==
  IF I = {} THEN None ELSE all_od_paths[CHOOSE i \in I : \A j \in I : i <= j].od

\* Lines 132-134: the catalog key for a route id read back from a name.
OriginalOdKey(od) ==
  LET direct == FirstKey({i \in Routes : all_od_paths[i].od = od}) IN
    IF direct # None THEN direct
    ELSE FirstKey({i \in Routes : ReplaceChar(all_od_paths[i].od, "-", "_")
                                    = ReplaceChar(od, "-", "_")})

\* The table row of a route with a positive value, under the key found for it.
SummaryRow(i, key) ==
  LET cm == all_od_paths[PathIndex(key)].cm IN
    [od_pair |-> key, tons |-> x[i], cm |-> cm, profit |-> x[i] * cm]

\* Line 148: the variables with a positive value for which no key is found.
Unmapped ==
  {i \in Routes : x[i] > 0 /\ OriginalOdKey(OdFromName(VarName(all_od_paths[i].od))) = None}

RECURSIVE OdSummary(_)
\* Lines 124-148 over the variables in the given order.
OdSummary(order) ==
  IF order = <<>> THEN <<>>
  ELSE LET i == Head(order)
           key == OriginalOdKey(OdFromName(VarName(all_od_paths[i].od)))
       IN (IF x[i] > 0 /\ key # None THEN <<SummaryRow(i, key)>> ELSE <<>>)
            \o OdSummary(Tail(order))

\* Lines 159-166: one record per leg of a row's route.
LegRecords(r) ==
  LET key == FirstKey({i \in Routes : all_od_paths[i].od = r.od_pair}) IN
    IF key = None THEN <<>>
    ELSE LET legs == all_od_paths[PathIndex(key)].legs IN
           [k \in 1..Len(legs) |->
              [leg |-> legs[k], od |-> r.od_pair, cm |-> r.cm, tons |-> r.tons,
               revenue |-> r.tons * r.cm, ptype |-> "Fills Remaining", rank |-> 0]]

RECURSIVE Records(_)
\* Lines 153-173: the leg-detail records, before ranking.
Records(summary) ==
  IF summary = <<>> THEN <<>> ELSE LegRecords(Head(summary)) \o Records(Tail(summary))

\* groupby("Flight Leg"): the records (by place) of one leg.
Group(recs, leg) == {i \in 1..Len(recs) : recs[i].leg = leg}

MaxTons(recs, G) == CHOOSE t \in {recs[i].tons : i \in G} : \A i \in G : recs[i].tons <= t

RECURSIVE SortedIndexAscending(_, _)
\* The sort with ascending=False left out: smallest tonnage first.
SortedIndexAscending(recs, G) ==
  IF G = {} THEN {<<>>}
  ELSE UNION {{<<i>> \o p : p \in SortedIndexAscending(recs, G \ {i})} :
              i \in {j \in G : \A k \in G : recs[j].tons <= recs[k].tons}}

RECURSIVE SortedIndex(_, _)
\* sort_values(by=["Cargo Tonnage"], ascending=False).index: the default sort
\* kind keeps no order among equal keys, so every descending order is a result.
SortedIndex(recs, G) ==
  IF G = {} THEN {<<>>}
  ELSE UNION {{<<i>> \o p : p \in SortedIndex(recs, G \ {i})} :
              i \in {j \in G : recs[j].tons = MaxTons(recs, G)}}

\* enumerate(sorted_group.index, start=1): the rank of record idx.
RankIn(index, idx) == CHOOSE r \in 1..Len(index) : index[r] = idx

\* The label decided by the record's rank, not by the size of its group.
RankedLabelByRank(recs, G, index) ==
  [i \in 1..Len(recs) |->
     IF i \in G
     THEN [recs[i] EXCEPT !.rank = RankIn(index, i),
                          !.ptype = IF RankIn(index, i) = 1 THEN "Only OD"
                                    ELSE "Based on Cargo Tonnage"]
     ELSE recs[i]]

\* Lines 177-182 for one group.
Ranked(recs, G, index) ==
  [i \in 1..Len(recs) |->
     IF i \in G
     THEN [recs[i] EXCEPT !.rank = RankIn(index, i),
                          !.ptype = IF Cardinality(G) = 1 THEN "Only OD"
                                    ELSE "Based on Cargo Tonnage"]
     ELSE recs[i]]

RECURSIVE LegDetails(_, _)
\* Lines 175-182: every table the loop over the groups can leave.
LegDetails(recs, legs) ==
  IF legs = {} THEN {recs}
  ELSE LET leg == CHOOSE l \in legs : TRUE
           G == Group(recs, leg)
       IN UNION {LegDetails(Ranked(recs, G, index), legs \ {leg}) :
                 index \in SortedIndex(recs, G)}

\* Line 184: total tonnage per leg.
LegSummary(recs) ==
  [leg \in {recs[i].leg : i \in 1..Len(recs)} |->
     SumF([i \in 1..Len(recs) |-> recs[i].tons], Group(recs, leg))]

\* Lines 124-194.  With no record, groupby("Flight Leg") raises KeyError.
PostProcess ==
  /\ pc = "post"
  /\ \E order \in VariableOrders :
       LET summary == OdSummary(order)
           recs == Records(summary)
       IN IF recs = <<>>
          THEN /\ pc' = "error"
               /\ diag' = [warnings |-> diag.warnings + Cardinality(Unmapped),
                           errors |-> diag.errors + 1]
               /\ UNCHANGED tables
          ELSE /\ pc' = "done"
               /\ diag' = [diag EXCEPT !.warnings = @ + Cardinality(Unmapped)]
               /\ od_summary' = summary
               /\ df_leg_detail' \in LegDetails(recs, {recs[i].leg : i \in 1..Len(recs)})
               /\ df_leg_summary' = LegSummary(recs)
               /\ total_profit' = <<Objective(x)>>
  /\ UNCHANGED <<n, row, catalog, model>>

Next ==
  \/ \E raw \in DirectRows : IngestDirect(raw)
  \/ EndDirect
  \/ \E raw \in IndirectRows : IngestIndirect(raw)
  \/ EndIndirect
  \/ Assemble
  \/ Solve
  \/ SolveFails
  \/ PostProcess

Spec == Init /\ [][Next]_vars

\* ------------------------------------------------------------------ claims
\* A step that ingests one row of the direct / of the indirect sheet.
DirectStep == pc = "direct" /\ n' = n + 1

IndirectStep == pc = "indirect" /\ n' = n + 1

\* The legs named by a route of the catalog.
LegsOf(i) == {all_od_paths[i].legs[k] : k \in 1..Len(all_od_paths[i].legs)}

\* The tonnage of the routes traversing a leg.
LegLoad(leg) == SumF(x, {j \in Routes : Traverses(j, leg)})

\* C1: on every run that reaches a solved allocation, each leg named by a
\* route of the catalog has a total capacity and a leg-total-capacity
\* constraint, and the tonnage of the routes traversing it is within it.
C1_LegsWithinCapacity ==
  (pc \in {"post", "done"} /\ status = "Optimal") =>
    \A i \in Routes : \A leg \in LegsOf(i) :
      /\ leg \in DOMAIN leg_total_capacities
      /\ \E c \in prob : c.src = <<"total", leg, 0>>
      /\ LegLoad(leg) <= leg_total_capacities[leg]

\* A row with a usable route id, one of whose numeric cells float() refuses.
MalformedDirect(r) ==
  LET c == CleanRow(r) IN
    /\ RouteId(c) # <<>>
    /\ ~CanFloat(c.ai_cap) \/ ~CanFloat(c.cm) \/ ~CanFloat(c.ai_share)

MalformedIndirect(r) ==
  LET c == CleanRow(r) IN
    /\ RouteId(c) # <<>>
    /\ \/ ~CanFloat(c.cm) \/ ~CanFloat(c.ai_share)
       \/ ~CanFloat(c.tp_cap1) \/ ~CanFloat(c.master1)
       \/ ~CanFloat(c.tp_cap2) \/ ~CanFloat(c.master2)

\* C2: a row one of whose numeric fields fails to coerce is skipped as a
\* whole: the catalog (routes, leg capacities, route-leg caps, master caps) is
\* left as it was, a diagnostic is emitted, and the run goes on.
C2_MalformedRowSkipped ==
  [][(\/ DirectStep /\ MalformedDirect(row'.cells)
      \/ IndirectStep /\ MalformedIndirect(row'.cells))
       => /\ catalog' = catalog
          /\ diag'.errors > diag.errors
          /\ pc' = pc]_vars

\* A route id cell that is missing: empty, the placeholder "-", or blank.
IdMissing(c) ==
  \/ c.kind = "nan"
  \/ c.kind = "str" /\ (c.text = sDash \/ Strip(c.text) = <<>>)

\* C3: a row whose route id cell is missing is skipped: it leaves no route
\* (so no decision variable) and no leg bound, and the run goes on.
C3_MissingIdSkipped ==
  [][((DirectStep \/ IndirectStep) /\ IdMissing(row'.cells.od))
       => catalog' = catalog /\ pc' = pc]_vars

\* An indirect row that is ingested whole: usable id, every number coerces.
ValidIndirect(r) == RouteId(CleanRow(r)) # <<>> /\ ~MalformedIndirect(r)

\* The master caps a valid indirect row supplies for a leg.
MasterSupplied(r, leg) ==
  LET c == CleanRow(r) IN
    (IF LegOf(c.leg1) = leg THEN {Float(c.master1)} ELSE {})
      \cup (IF LegOf(c.leg2) = leg THEN {Float(c.master2)} ELSE {})

MinOf(S) == CHOOSE m \in S : \A k \in S : m <= k

\* C4: the master cap held for a leg is the running minimum of the master
\* caps supplied for it: after each indirect record it is the least of the cap
\* held before and the caps the record supplies, so no record relaxes it.
C4_MasterCapIsMinimum ==
  [][(IndirectStep /\ ValidIndirect(row'.cells)) =>
       \A leg \in DOMAIN leg_tp_master_caps' :
         leg_tp_master_caps'[leg] =
           MinOf(MasterSupplied(row'.cells, leg)
                   \cup (IF leg \in DOMAIN leg_tp_master_caps
                         THEN {leg_tp_master_caps[leg]} ELSE {}))]_vars

NoTables ==
  od_summary = <<>> /\ df_leg_detail = <<>> /\ df_leg_summary = EmptyDict
    /\ total_profit = <<>>

AllTables ==
  od_summary # <<>> /\ df_leg_detail # <<>> /\ df_leg_summary # EmptyDict
    /\ total_profit # <<>>

\* C5: a run ends with all the tables and the profit, from an optimal
\* solution, or with none of them and an error; nothing is produced when the
\* solver's outcome is Infeasible or an error.
C5_AllOrNothing ==
  /\ pc = "done" => AllTables /\ status = "Optimal"
  /\ pc = "error" => NoTables /\ diag.errors >= 1
  /\ status \in {"Infeasible", "Unbounded", "Error"} => NoTables

DetailRows == 1..Len(df_leg_detail)

DetailLegs == {df_leg_detail[i].leg : i \in DetailRows}

\* C6: in the leg-detail table of a completed run the ranks of a leg's N
\* records are 1..N, each once, and a record of smaller rank never has the
\* smaller tonnage.
C6_RanksArePermutation ==
  pc = "done" =>
    \A leg \in DetailLegs :
      LET G == Group(df_leg_detail, leg) IN
        /\ {df_leg_detail[i].rank : i \in G} = 1..Cardinality(G)
        /\ \A i, j \in G : i # j => df_leg_detail[i].rank # df_leg_detail[j].rank
        /\ \A i, j \in G : df_leg_detail[i].rank < df_leg_detail[j].rank
                             => df_leg_detail[i].tons >= df_leg_detail[j].tons

\* A completed run with a leg of three or more records, some of equal and
\* some of different tonnage.
C6_Witness ==
  /\ pc = "done"
  /\ \E leg \in DetailLegs :
       LET G == Group(df_leg_detail, leg) IN
         /\ Cardinality(G) >= 3
         /\ \E i, j \in G : df_leg_detail[i].tons > df_leg_detail[j].tons
         /\ \E i, j \in G : i # j /\ df_leg_detail[i].tons = df_leg_detail[j].tons

\* C7: of two routes with equal tonnage on a leg, the one that comes first in
\* the input (the catalog's order: direct rows, then indirect rows) has the
\* smaller rank.
C7_TiesByInputOrder ==
  pc = "done" =>
    \A i, j \in DetailRows :
      (/\ df_leg_detail[i].leg = df_leg_detail[j].leg
       /\ df_leg_detail[i].tons = df_leg_detail[j].tons
       /\ df_leg_detail[i].od # df_leg_detail[j].od
       /\ PathIndex(df_leg_detail[i].od) < PathIndex(df_leg_detail[j].od))
        => df_leg_detail[i].rank < df_leg_detail[j].rank

\* C8: in the leg-detail table of a completed run, the records of a leg with
\* one record carry "Only OD", those of a leg with more carry "Based on Cargo
\* Tonnage", and none keeps the placeholder.
C8_PriorityLabels ==
  pc = "done" =>
    \A i \in DetailRows :
      df_leg_detail[i].ptype =
        IF Cardinality(Group(df_leg_detail, df_leg_detail[i].leg)) = 1
        THEN "Only OD" ELSE "Based on Cargo Tonnage"

\* A completed run with a leg of one record and a leg of several.
C8_Witness ==
  /\ pc = "done"
  /\ \E leg \in DetailLegs : Cardinality(Group(df_leg_detail, leg)) = 1
  /\ \E leg \in DetailLegs : Cardinality(Group(df_leg_detail, leg)) >= 2

\* C9: the constraints assembled from an ingested dataset have pairwise
\* distinct names.
C9_DistinctConstraintNames ==
  pc = "assemble" => \A c, d \in Constraints : c # d => c.name # d.name

\* The rows of the allocation table under a route's id.
SummaryRowsOf(i) ==
  {k \in 1..Len(od_summary) : od_summary[k].od_pair = all_od_paths[i].od}

\* C10: in a completed run a route is in the allocation table exactly when
\* its tonnage is positive, and then once, with its tonnage and its margin.
C10_PositiveRoutesReported ==
  pc = "done" =>
    \A i \in Routes :
      /\ x[i] > 0 <=> SummaryRowsOf(i) # {}
      /\ Cardinality(SummaryRowsOf(i)) <= 1
      /\ \A k \in SummaryRowsOf(i) :
           od_summary[k].tons = x[i] /\ od_summary[k].cm = all_od_paths[i].cm

====
